---- MODULE Spec2Model ----
(***************************************************************************)
(* Dining philosophers, src/exercises/threads/dining_philosophers.rs.      *)
(*                                                                         *)
(* main builds a roster of philosophers and a Table of Mutex<()> forks,    *)
(* spawns one thread per philosopher running Philosopher::eat, and joins   *)
(* the threads in roster order.  A thread is modelled by its position in   *)
(* eat, a fork by the state of its std::sync::Mutex (locked, poisoned),    *)
(* and the guards _left and _right by the set of fork indices a thread     *)
(* holds a MutexGuard for.                                                 *)
(***************************************************************************)
EXTENDS Naturals, Sequences, FiniteSets, TLC

VARIABLES
    philosophers,   \* the roster: index -> [name, left, right]
    forks,          \* table.forks: index -> [locked, poisoned]
    guards,         \* per thread: the fork indices whose MutexGuard it holds
    pc,             \* per thread: its position in eat
    out,            \* the lines written to standard output, in order
    mainPc,         \* main's position: spawn, join, returned, panicked
    next,           \* index of the next philosopher main spawns or joins
    status,         \* the process: running, success, failure
    poisonedAtLaunch \* the forks already poisoned when main launches (never changes)

vars == <<philosophers, forks, guards, pc, out, mainPc, next, status,
          poisonedAtLaunch>>

\* Largest ring size of the generalised rosters (the program itself has 5).
MaxN == 4

----------------------------------------------------------------------------
\* Philosopher::new
Philosopher(name, left, right) == [name |-> name, left |-> left, right |-> right]

\* Mutant of Roster: the last philosopher built by the constructor call that
\* is commented out, Philosopher::new("Michel Foucault", 0, 4).
RosterLastSwapped ==
    [i \in 0..4 |->
        CASE i = 0 -> Philosopher("Judith Butler", 0, 1)
          [] i = 1 -> Philosopher("Gilles Deleuze", 1, 2)
          [] i = 2 -> Philosopher("Karl Marx", 2, 3)
          [] i = 3 -> Philosopher("Emma Goldman", 3, 4)
          [] i = 4 -> Philosopher("Michel Foucault", 0, 4)]

\* The roster main builds, indexed from 0 like the Vec.
Roster ==
    [i \in 0..4 |->
        CASE i = 0 -> Philosopher("Judith Butler", 0, 1)
          [] i = 1 -> Philosopher("Gilles Deleuze", 1, 2)
          [] i = 2 -> Philosopher("Karl Marx", 2, 3)
          [] i = 3 -> Philosopher("Emma Goldman", 3, 4)
          [] i = 4 -> Philosopher("Michel Foucault", 4, 0)]

\* Mutex::new(()): unlocked, not poisoned.
NewMutex == [locked |-> FALSE, poisoned |-> FALSE]

\* Mutant of TableForks: one Mutex::new(()) too many in the vec! literal.
TableForksSix == [f \in 0..5 |-> NewMutex]

\* The Table main builds: five fresh mutexes, indexed from 0 like the Vec.
TableForks == [f \in 0..4 |-> NewMutex]

\* The state of a run before main spawns its first thread, for a given
\* roster and table.
Launch(roster, table) ==
    /\ philosophers = roster
    /\ forks = table
    /\ guards = [i \in DOMAIN roster |-> {}]
    /\ pc = [i \in DOMAIN roster |-> "not_spawned"]
    /\ out = <<>>
    /\ mainPc = "spawn"
    /\ next = 0
    /\ status = "running"
    /\ poisonedAtLaunch = {f \in DOMAIN table : table[f].poisoned}

\* The program as written.
Init == Launch(Roster, TableForks)

\* A table of n fresh mutexes.
NewTable(n) == [f \in 0..(n - 1) |-> NewMutex]

\* A ring of n philosophers, philosopher i with left = i and
\* right = (i + 1) mod n, except that the pair of philosopher rev is
\* reversed (no pair is reversed when rev is not an index of the ring).
RingRoster(n, rev) ==
    [i \in 0..(n - 1) |->
        IF i = rev
        THEN Philosopher(ToString(i), (i + 1) % n, i)
        ELSE Philosopher(ToString(i), i, (i + 1) % n)]

\* Rings of 2..MaxN philosophers with exactly one pair reversed.
InitRing ==
    \E n \in 2..MaxN : \E rev \in 0..(n - 1) :
        Launch(RingRoster(n, rev), NewTable(n))

\* Rings of 2..MaxN philosophers with the uniform assignment.
InitUniform ==
    \E n \in 2..MaxN : Launch(RingRoster(n, n), NewTable(n))

\* The program with one fork poisoned before the philosophers are launched.
InitPoison ==
    \E f \in DOMAIN TableForks :
        Launch(Roster, [TableForks EXCEPT ![f].poisoned = TRUE])

----------------------------------------------------------------------------
Phils == DOMAIN philosophers

\* Mutant of CanLock: a lock() that does not wait for the holder.
CanLockAlways(f) == TRUE

\* Mutex::lock blocks while the mutex is locked.
CanLock(f) == ~forks[f].locked

\* Mutant of Panic: the panic does not unwind (the guards are never dropped),
\* so the thread dies owning the mutex it just locked and those it held.
PanicLeaking(i, f) ==
    /\ forks' = [forks EXCEPT ![f].locked = TRUE]
    /\ guards' = [guards EXCEPT ![i] = @ \cup {f}]
    /\ pc' = [pc EXCEPT ![i] = "panicked"]

\* Mutant of Panic: the guards are dropped as on the normal path, unlocking
\* their mutexes without poisoning them.
PanicUnpoisoned(i, f) ==
    /\ forks' = [g \in DOMAIN forks |->
                    IF g \in guards[i] \cup {f}
                    THEN [locked |-> FALSE, poisoned |-> forks[g].poisoned]
                    ELSE forks[g]]
    /\ guards' = [guards EXCEPT ![i] = {}]
    /\ pc' = [pc EXCEPT ![i] = "panicked"]

\* lock() returned Err(PoisonError) and unwrap() panics: the thread unwinds,
\* dropping the guard inside the error and every guard it holds.  A guard
\* dropped while its thread is panicking unlocks its mutex and poisons it.
Panic(i, f) ==
    /\ forks' = [g \in DOMAIN forks |->
                    IF g \in guards[i] \cup {f}
                    THEN [locked |-> FALSE, poisoned |-> TRUE]
                    ELSE forks[g]]
    /\ guards' = [guards EXCEPT ![i] = {}]
    /\ pc' = [pc EXCEPT ![i] = "panicked"]

\* Mutant of Acquire: the guard is handed out but the mutex is not marked locked.
AcquireUnlocked(i, f, then) ==
    /\ forks' = forks
    /\ guards' = [guards EXCEPT ![i] = @ \cup {f}]
    /\ pc' = [pc EXCEPT ![i] = then]

\* lock() returned Ok(guard): the mutex is locked and the thread keeps the guard.
Acquire(i, f, then) ==
    /\ forks' = [forks EXCEPT ![f].locked = TRUE]
    /\ guards' = [guards EXCEPT ![i] = @ \cup {f}]
    /\ pc' = [pc EXCEPT ![i] = then]

\* Mutant of Release: the drop on the normal path marks the mutex poisoned,
\* as a drop during a panic does.
ReleasePoisoning(i, f, then) ==
    /\ forks' = [forks EXCEPT ![f] = [locked |-> FALSE, poisoned |-> TRUE]]
    /\ guards' = [guards EXCEPT ![i] = @ \ {f}]
    /\ pc' = [pc EXCEPT ![i] = then]

\* Mutant of Release: the guard is leaked (mem::forget), the mutex stays locked.
ReleaseLeaked(i, f, then) ==
    /\ forks' = forks
    /\ guards' = [guards EXCEPT ![i] = @ \ {f}]
    /\ pc' = [pc EXCEPT ![i] = then]

\* A guard dropped on the normal path unlocks its mutex and leaves the
\* poison flag alone.
Release(i, f, then) ==
    /\ forks' = [forks EXCEPT ![f].locked = FALSE]
    /\ guards' = [guards EXCEPT ![i] = @ \ {f}]
    /\ pc' = [pc EXCEPT ![i] = then]

\* Mutant of LockLeft: the first lock() is taken on self.right.
LockLeftOnRight(i) ==
    /\ status = "running"
    /\ pc[i] = "lock_left"
    /\ CanLock(philosophers[i].right)
    /\ IF forks[philosophers[i].right].poisoned
       THEN Panic(i, philosophers[i].right)
       ELSE Acquire(i, philosophers[i].right, "lock_right")
    /\ UNCHANGED <<philosophers, out, mainPc, next, status, poisonedAtLaunch>>

\* let _left = table.forks[self.left].lock().unwrap();
LockLeft(i) ==
    /\ status = "running"
    /\ pc[i] = "lock_left"
    /\ CanLock(philosophers[i].left)
    /\ IF forks[philosophers[i].left].poisoned
       THEN Panic(i, philosophers[i].left)
       ELSE Acquire(i, philosophers[i].left, "lock_right")
    /\ UNCHANGED <<philosophers, out, mainPc, next, status, poisonedAtLaunch>>

\* Mutant of LockRight: a try_lock() whose failure is ignored, the thread
\* goes on whether or not the fork is free.
LockRightNoWait(i) ==
    /\ status = "running"
    /\ pc[i] = "lock_right"
    /\ IF forks[philosophers[i].right].poisoned
       THEN Panic(i, philosophers[i].right)
       ELSE Acquire(i, philosophers[i].right, "print_eating")
    /\ UNCHANGED <<philosophers, out, mainPc, next, status, poisonedAtLaunch>>

\* Mutant of LockRight: the guard is bound to `_`, so it is dropped at once
\* and the fork is not held while eating.
LockRightDiscarded(i) ==
    /\ status = "running"
    /\ pc[i] = "lock_right"
    /\ CanLock(philosophers[i].right)
    /\ IF forks[philosophers[i].right].poisoned
       THEN Panic(i, philosophers[i].right)
       ELSE /\ pc' = [pc EXCEPT ![i] = "print_eating"]
            /\ UNCHANGED <<forks, guards>>
    /\ UNCHANGED <<philosophers, out, mainPc, next, status, poisonedAtLaunch>>

\* let _right = table.forks[self.right].lock().unwrap();
LockRight(i) ==
    /\ status = "running"
    /\ pc[i] = "lock_right"
    /\ CanLock(philosophers[i].right)
    /\ IF forks[philosophers[i].right].poisoned
       THEN Panic(i, philosophers[i].right)
       ELSE Acquire(i, philosophers[i].right, "print_eating")
    /\ UNCHANGED <<philosophers, out, mainPc, next, status, poisonedAtLaunch>>

\* The text of println!("{} is eating.", name).
EatingLine(name) == name \o " is eating."

\* The text of println!("{} is done eating.", name).
DoneLine(name) == name \o " is done eating."

\* println!("{} is eating.", self.name);
PrintEating(i) ==
    /\ status = "running"
    /\ pc[i] = "print_eating"
    /\ out' = Append(out, EatingLine(philosophers[i].name))
    /\ pc' = [pc EXCEPT ![i] = "sleep"]
    /\ UNCHANGED <<philosophers, forks, guards, mainPc, next, status,
                   poisonedAtLaunch>>

\* Mutant of PrintDone: the thread sleeps and leaves out the second println!.
PrintDoneSilent(i) ==
    /\ status = "running"
    /\ pc[i] = "sleep"
    /\ out' = out
    /\ pc' = [pc EXCEPT ![i] = "drop_right"]
    /\ UNCHANGED <<philosophers, forks, guards, mainPc, next, status,
                   poisonedAtLaunch>>

\* thread::sleep(...); println!("{} is done eating.", self.name);
PrintDone(i) ==
    /\ status = "running"
    /\ pc[i] = "sleep"
    /\ out' = Append(out, DoneLine(philosophers[i].name))
    /\ pc' = [pc EXCEPT ![i] = "drop_right"]
    /\ UNCHANGED <<philosophers, forks, guards, mainPc, next, status,
                   poisonedAtLaunch>>

\* End of eat: locals are dropped in reverse order of declaration, _right first.
DropRight(i) ==
    /\ status = "running"
    /\ pc[i] = "drop_right"
    /\ Release(i, philosophers[i].right, "drop_left")
    /\ UNCHANGED <<philosophers, out, mainPc, next, status, poisonedAtLaunch>>

\* Mutant of DropLeft: eat returns with _left forgotten (mem::forget), the
\* thread finishes with the guard never dropped.
DropLeftForgotten(i) ==
    /\ status = "running"
    /\ pc[i] = "drop_left"
    /\ pc' = [pc EXCEPT ![i] = "done"]
    /\ UNCHANGED <<philosophers, forks, guards, out, mainPc, next, status,
                   poisonedAtLaunch>>

\* _left is dropped, eat returns and the thread finishes.
DropLeft(i) ==
    /\ status = "running"
    /\ pc[i] = "drop_left"
    /\ Release(i, philosophers[i].left, "done")
    /\ UNCHANGED <<philosophers, out, mainPc, next, status, poisonedAtLaunch>>

\* One step of philosopher i's thread.
Eat(i) ==
    /\ i \in Phils
    /\ \/ LockLeft(i)
       \/ LockRight(i)
       \/ PrintEating(i)
       \/ PrintDone(i)
       \/ DropRight(i)
       \/ DropLeft(i)

----------------------------------------------------------------------------
\* philosophers.into_iter().map(|p| thread::spawn(...)).collect(): one thread
\* per philosopher, in roster order; a spawned thread runs at once.
Spawn ==
    /\ status = "running"
    /\ mainPc = "spawn"
    /\ pc[next] = "not_spawned"
    /\ pc' = [pc EXCEPT ![next] = "lock_left"]
    /\ IF next + 1 = Cardinality(Phils)
       THEN mainPc' = "join" /\ next' = 0
       ELSE mainPc' = mainPc /\ next' = next + 1
    /\ UNCHANGED <<philosophers, forks, guards, out, status, poisonedAtLaunch>>

\* Mutant of Finished: a thread counts as finished once it has printed its
\* last line, before its guards are dropped.
FinishedAtLastLine(i) == pc[i] \in {"drop_right", "drop_left", "done", "panicked"}

\* A thread has finished: eat returned, or the thread panicked.
Finished(i) == pc[i] \in {"done", "panicked"}

\* Mutant of Join: h.join() without unwrap(), the thread's panic is ignored.
JoinIgnoringPanic ==
    /\ status = "running"
    /\ mainPc = "join"
    /\ Finished(next)
    /\ IF next + 1 = Cardinality(Phils)
       THEN mainPc' = "returned" /\ next' = next
       ELSE mainPc' = mainPc /\ next' = next + 1
    /\ UNCHANGED <<philosophers, forks, guards, pc, out, status, poisonedAtLaunch>>

\* for h in handles { h.join().unwrap(); }: join blocks until the thread has
\* finished and returns Err when it panicked, on which unwrap panics main.
Join ==
    /\ status = "running"
    /\ mainPc = "join"
    /\ Finished(next)
    /\ IF pc[next] = "panicked"
       THEN mainPc' = "panicked" /\ next' = next
       ELSE IF next + 1 = Cardinality(Phils)
            THEN mainPc' = "returned" /\ next' = next
            ELSE mainPc' = mainPc /\ next' = next + 1
    /\ UNCHANGED <<philosophers, forks, guards, pc, out, status, poisonedAtLaunch>>

\* The process ends when main returns (success) or main has panicked
\* (failure); threads still running are stopped with it.
Exit ==
    /\ status = "running"
    /\ mainPc \in {"returned", "panicked"}
    /\ status' = IF mainPc = "returned" THEN "success" ELSE "failure"
    /\ UNCHANGED <<philosophers, forks, guards, pc, out, mainPc, next,
                   poisonedAtLaunch>>

Next ==
    \/ \E i \in Phils : LockLeft(i)
    \/ \E i \in Phils : LockRight(i)
    \/ \E i \in Phils : PrintEating(i)
    \/ \E i \in Phils : PrintDone(i)
    \/ \E i \in Phils : DropRight(i)
    \/ \E i \in Phils : DropLeft(i)
    \/ Spawn
    \/ Join
    \/ Exit

\* Every spawned thread and main are scheduled: a step that stays possible
\* is eventually taken.
Fairness(n) ==
    /\ \A i \in 0..(n - 1) : WF_vars(Eat(i))
    /\ WF_vars(Spawn)
    /\ WF_vars(Join)
    /\ WF_vars(Exit)

\* The program as written.
Spec == Init /\ [][Next]_vars

\* Rings with one reversed pair, under fair scheduling.
SpecRing == InitRing /\ [][Next]_vars /\ Fairness(MaxN)

\* Rings with the uniform assignment.
SpecUniform == InitUniform /\ [][Next]_vars

\* The program with one fork poisoned before launch, under fair scheduling.
SpecPoison == InitPoison /\ [][Next]_vars /\ Fairness(Cardinality(DOMAIN Roster))

----------------------------------------------------------------------------
\* Vocabulary of the properties.

Left(i) == philosophers[i].left

Right(i) == philosophers[i].right

\* Fork f is held by a philosopher other than i.
HeldByOther(i, f) == \E j \in Phils \ {i} : f \in guards[j]

\* Philosopher i is at a lock() call on a fork another philosopher holds.
Blocked(i) ==
    \/ pc[i] = "lock_left" /\ HeldByOther(i, Left(i))
    \/ pc[i] = "lock_right" /\ HeldByOther(i, Right(i))

\* Every philosopher holds exactly its left fork and is at its second lock().
AllHoldLeft ==
    \A i \in Phils : pc[i] = "lock_right" /\ guards[i] = {Left(i)}

\* The number of times line occurs in the output.
Count(line) == Cardinality({k \in 1..Len(out) : out[k] = line})

\* The philosophers that use a fork poisoned before launch.
Dependents ==
    {i \in Phils : Left(i) \in poisonedAtLaunch \/ Right(i) \in poisonedAtLaunch}

\* C1: in the program as written no deadlock is reachable: there is no
\* state in which some philosopher has not finished eat and every unfinished
\* philosopher is blocked at a lock() on a fork another philosopher holds.
C1_NoDeadlock ==
    ~ /\ \E i \in Phils : ~Finished(i)
      /\ \A i \in Phils : ~Finished(i) => Blocked(i)

\* C2: in a ring of 2..MaxN philosophers with exactly one pair reversed,
\* whichever it is, under fair scheduling every run eventually reaches the
\* state where all philosophers are done.
C2_RingCompletes == <>(\A i \in Phils : pc[i] = "done")

\* C2 witness: the largest ring, its first pair reversed, has completed.
C2_Witness ==
    /\ Cardinality(Phils) = MaxN
    /\ Left(0) = 1 /\ Right(0) = 0
    /\ \A i \in Phils : pc[i] = "done"

\* C3: every fork is held by at most one philosopher in every reachable
\* state, and a lock() returns a guard for a fork only in a step that
\* starts with no other philosopher holding that fork.
C3_MutualExclusion ==
    /\ [](\A f \in DOMAIN forks :
            Cardinality({i \in Phils : f \in guards[i]}) <= 1)
    /\ [][\A i \in Phils : \A f \in DOMAIN forks :
            (f \notin guards[i] /\ f \in guards'[i]) => ~HeldByOther(i, f)]_vars

\* C3 witness: a philosopher is at lock() on a fork its neighbour holds,
\* and that neighbour is eating.
C3_Witness ==
    \E i \in Phils : \E j \in Phils \ {i} :
        /\ pc[i] = "lock_right"
        /\ Right(i) \in guards[j]
        /\ pc[j] = "sleep"

\* C4: the roster main builds is (0,1),(1,2),(2,3),(3,4),(0,4): the fifth
\* philosopher has left = 0 and right = 4.
C4_LastPairSwapped ==
    /\ Phils = 0..4
    /\ \A i \in 0..3 : Left(i) = i /\ Right(i) = i + 1
    /\ Left(4) = 0 /\ Right(4) = 4

\* C5: the state in which all five philosophers hold exactly their left
\* fork and each is waiting for its right fork is unreachable.
C5_NoCircularWait == ~AllHoldLeft

\* C6: with the uniform assignment on a ring of 2..MaxN philosophers, once
\* all philosophers have acquired their left fork before any has attempted
\* its right fork, the run is deadlocked: no step of any thread or of main
\* is possible, so this state lasts forever, and no line has been emitted.
C6_UniformDeadlocks == AllHoldLeft => (~ENABLED Next /\ out = <<>>)

\* C6 witness: the largest uniform ring with every philosopher holding its
\* left fork and blocked on its right fork.
C6_Witness ==
    /\ Cardinality(Phils) = MaxN
    /\ AllHoldLeft
    /\ \A i \in Phils : Blocked(i)

\* C7: when main has returned, exactly 10 lines have been emitted, each
\* philosopher's "is eating." line once and its "is done eating." line once;
\* and in every state a philosopher's "is done eating." line is preceded
\* in the output by its own "is eating." line.
C7_OutputLines ==
    /\ mainPc = "returned" =>
        /\ Len(out) = 10
        /\ \A i \in Phils :
            /\ Count(EatingLine(philosophers[i].name)) = 1
            /\ Count(DoneLine(philosophers[i].name)) = 1
    /\ \A i \in Phils : \A k \in 1..Len(out) :
        out[k] = DoneLine(philosophers[i].name) =>
            \E j \in 1..(k - 1) : out[j] = EatingLine(philosophers[i].name)

\* C7 witness: the run has ended with success and the last philosopher of
\* the roster was not the last to finish eating.
C7_Witness ==
    /\ status = "success"
    /\ Len(out) = 10
    /\ out[10] # DoneLine(philosophers[4].name)

\* C8, as claimed: when the run with a fork poisoned before launch has ended
\* in failure, every philosopher using that fork has panicked at its
\* lock().unwrap().
C8_DependentsAllPanic ==
    status = "failure" => \A i \in Dependents : pc[i] = "panicked"

\* C8, amended: with one fork poisoned before launch, a philosopher using
\* that fork never gets past its lock() calls (it emits no line and ends,
\* if it ends, by panicking), main never returns normally, and under fair
\* scheduling the process ends in failure.
C8_FatalPropagation ==
    /\ [](\A i \in Dependents :
            /\ pc[i] \in {"not_spawned", "lock_left", "lock_right", "panicked"}
            /\ Count(EatingLine(philosophers[i].name)) = 0)
    /\ [](mainPc # "returned" /\ status # "success")
    /\ <>(mainPc = "panicked" /\ status = "failure")

\* C8 witness: the process has ended in failure while a philosopher using
\* the poisoned fork was still at a lock() call.
C8_Witness ==
    /\ status = "failure"
    /\ \E i \in Dependents : pc[i] \in {"lock_left", "lock_right"}
    /\ \E i \in Dependents : pc[i] = "panicked"

\* C9: whenever main has passed its join loop and returned, every
\* philosopher is done, holds no fork and has emitted both of its lines.
C9_ReturnAfterAllDone ==
    mainPc = "returned" =>
        \A i \in Phils :
            /\ pc[i] = "done"
            /\ guards[i] = {}
            /\ Count(EatingLine(philosophers[i].name)) = 1
            /\ Count(DoneLine(philosophers[i].name)) = 1

\* C9 witness: main has returned and the process has not yet ended.
C9_Witness == mainPc = "returned" /\ status = "running"

\* C10: there are 5 forks and 5 philosophers, every left and right index
\* lies in 0..4, no philosopher has left equal to right, and the set of
\* forks is the same in every reachable state.
C10_WellFormed ==
    /\ DOMAIN forks = 0..4
    /\ Cardinality(DOMAIN forks) = Cardinality(Phils)
    /\ Cardinality(Phils) = 5
    /\ \A i \in Phils :
        /\ Left(i) \in DOMAIN forks
        /\ Right(i) \in DOMAIN forks
        /\ Left(i) # Right(i)

\* C10 witness: all five forks are locked or have been used and released:
\* every philosopher is done and the table still has its five forks.
C10_Witness ==
    /\ \A i \in Phils : pc[i] = "done"
    /\ Cardinality(DOMAIN forks) = 5
    /\ mainPc = "join"

C12_LeftThenRight ==
    /\ [](\A i \in Phils :
            /\ Right(i) \in guards[i] => Left(i) \in guards[i]
            /\ pc[i] = "lock_right" => guards[i] = {Left(i)})
    /\ [][\A i \in Phils :
            (Right(i) \notin guards[i] /\ Right(i) \in guards'[i]) =>
                (pc[i] = "lock_right" /\ Left(i) \in guards[i])]_vars

\* C12 witness: a philosopher has both guards, the second lock() having
\* just returned, while a neighbour waits at its first lock().
C12_Witness ==
    \E i \in Phils : \E j \in Phils \ {i} :
        /\ pc[i] = "print_eating"
        /\ guards[i] = {Left(i), Right(i)}
        /\ pc[j] = "lock_left"
        /\ Left(j) \in guards[i]

\* Philosopher i has emitted "is eating." and not yet "is done eating.".
Eating(i) ==
    /\ Count(EatingLine(philosophers[i].name)) = 1
    /\ Count(DoneLine(philosophers[i].name)) = 0

\* C13: a philosopher that has emitted "is eating." and not yet "is done
\* eating." holds both the fork at its left index and the fork at its right
\* index, and both mutexes are locked.
C13_EatsHoldingBoth ==
    \A i \in Phils :
        Eating(i) =>
            /\ Left(i) \in guards[i] /\ Right(i) \in guards[i]
            /\ forks[Left(i)].locked /\ forks[Right(i)].locked

\* C13 witness: a philosopher is eating with both forks while both of its
\* neighbours wait for one of them.
C13_Witness ==
    \E i \in Phils : \E j, k \in Phils \ {i} :
        /\ Eating(i)
        /\ guards[i] = {Left(i), Right(i)}
        /\ pc[j] = "lock_left" /\ Left(j) = Right(i)
        /\ pc[k] = "lock_right" /\ Right(k) = Left(i)

\* C14: a philosopher gives up a fork only after it has emitted "is done
\* eating." (so it keeps its left fork while it waits for its right fork),
\* a philosopher that is done holds no fork, and when all philosophers are
\* done every fork is unlocked.
C14_HeldUntilDone ==
    /\ [][\A i \in Phils : \A f \in DOMAIN forks :
            (f \in guards[i] /\ f \notin guards'[i]) =>
                Count(DoneLine(philosophers[i].name)) = 1]_vars
    /\ [](\A i \in Phils :
            /\ (pc[i] = "lock_right" /\ forks[Right(i)].locked) => Left(i) \in guards[i]
            /\ pc[i] = "done" => guards[i] = {})
    /\ []((\A i \in Phils : pc[i] = "done") =>
            (\A f \in DOMAIN forks : ~forks[f].locked))

\* C14 witness: one philosopher is done and holds nothing while another
\* keeps its left fork, blocked on its right fork.
C14_Witness ==
    \E i \in Phils : \E j \in Phils \ {i} :
        /\ pc[i] = "done" /\ guards[i] = {}
        /\ pc[j] = "lock_right" /\ Blocked(j) /\ guards[j] = {Left(j)}

\* C15: a philosopher that panics at a lock().unwrap() releases every fork
\* it holds in that step; no terminated philosopher, done or panicked, holds
\* a fork, and every locked fork is held by a philosopher still running.
C15_ReleaseOnPanic ==
    /\ [][\A i \in Phils :
            (pc[i] # "panicked" /\ pc'[i] = "panicked") =>
                /\ guards'[i] = {}
                /\ \A f \in guards[i] : ~forks'[f].locked]_vars
    /\ [](\A i \in Phils : pc[i] \in {"done", "panicked"} => guards[i] = {})
    /\ [](\A f \in DOMAIN forks :
            forks[f].locked =>
                \E i \in Phils :
                    f \in guards[i] /\ pc[i] \notin {"done", "panicked"})

\* C15 witness: a philosopher has panicked at its second lock() and the
\* left fork it held is unlocked again.
C15_Witness ==
    \E i \in Phils :
        /\ pc[i] = "panicked"
        /\ Right(i) \in poisonedAtLaunch
        /\ forks[Left(i)].poisoned /\ ~forks[Left(i)].locked
        /\ guards[i] = {}

\* C16: starting with no fork poisoned, no fork ever becomes poisoned, no
\* philosopher ever panics, and main neither observes a failed thread nor
\* ends the process in failure.
C16_NoSpontaneousFailure ==
    /\ \A f \in DOMAIN forks : ~forks[f].poisoned
    /\ \A i \in Phils : pc[i] # "panicked"
    /\ mainPc # "panicked"
    /\ status # "failure"

\* C16 witness: the process has ended with success, every philosopher done
\* and no fork poisoned.
C16_Witness ==
    /\ status = "success"
    /\ \A i \in Phils : pc[i] = "done"
    /\ \A f \in DOMAIN forks : ~forks[f].poisoned

\* C17: a philosopher that panics at its second lock() leaves its left fork
\* poisoned and unlocked; a poisoned fork stays poisoned, and a lock() that
\* returns on a poisoned fork panics its thread; and with one fork poisoned
\* before launch every fair run ends with main panicked and the process in
\* failure.
C17_PoisonCascade ==
    /\ [][\A i \in Phils :
            (pc[i] = "lock_right" /\ pc'[i] = "panicked") =>
                (forks'[Left(i)].poisoned /\ ~forks'[Left(i)].locked)]_vars
    /\ [][\A f \in DOMAIN forks : forks[f].poisoned => forks'[f].poisoned]_vars
    /\ [][\A i \in Phils :
            /\ (pc[i] = "lock_left" /\ forks[Left(i)].poisoned /\ pc'[i] # pc[i])
                => pc'[i] = "panicked"
            /\ (pc[i] = "lock_right" /\ forks[Right(i)].poisoned /\ pc'[i] # pc[i])
                => pc'[i] = "panicked"]_vars
    /\ <>(status = "failure")

\* C17 witness: a philosopher neither of whose forks was poisoned before
\* launch has panicked, on a fork poisoned by another philosopher's panic.
C17_Witness ==
    \E i \in Phils :
        /\ pc[i] = "panicked"
        /\ Left(i) \notin poisonedAtLaunch
        /\ Right(i) \notin poisonedAtLaunch

\* C18: at most 2 of the 5 philosophers are between "is eating." and "is
\* done eating." at the same time, and two philosophers that share a fork
\* index are never eating at the same time.
C18_AtMostTwoEating ==
    /\ Cardinality({i \in Phils : Eating(i)}) <= 2
    /\ \A i \in Phils : \A j \in Phils \ {i} :
        ({Left(i), Right(i)} \cap {Left(j), Right(j)} # {}) =>
            ~(Eating(i) /\ Eating(j))

\* C18 witness: two philosophers that share no fork are eating at once.
C18_Witness ==
    \E i \in Phils : \E j \in Phils \ {i} :
        /\ Eating(i) /\ Eating(j)
        /\ {Left(i), Right(i)} \cap {Left(j), Right(j)} = {}

====
